------------------------------ MODULE Spec2Model ------------------------------
(***************************************************************************)
(* The IAR compiler-output parser (IarParser) of the BareMetal plugin, and  *)
(* the "Extract Component" quick-fix (ComponentFromObjectDef) of the QML   *)
(* editor.                                                                 *)
(*                                                                         *)
(* A line of compiler output is a sequence of atoms.  An atom is either a  *)
(* single white-space character (SP, TAB) or a word: a run of characters   *)
(* without white space at its ends that the parser never splits ("Error", *)
(* "[", "main.c", a decimal digit, ...).  The string operations and the    *)
(* three regular expressions of the parser are computed on atoms exactly   *)
(* as Qt computes them on characters.  The font of a format range is left  *)
(* out: it comes from the editor settings and no line changes it.          *)
(***************************************************************************)
EXTENDS Integers, Sequences, FiniteSets, TLC

SP  == " "
TAB == "\t"
NL  == "\n"
Q   == "\""

\* QChar::isSpace on the atoms of a line.
IsSpace(a) == a \in {SP, TAB}

DigitVal == [c \in {"0", "1", "2", "3", "4", "5", "6", "7", "8", "9"} |->
               CASE c = "0" -> 0 [] c = "1" -> 1 [] c = "2" -> 2 [] c = "3" -> 3
                 [] c = "4" -> 4 [] c = "5" -> 5 [] c = "6" -> 6 [] c = "7" -> 7
                 [] c = "8" -> 8 [] c = "9" -> 9]

IsDigit(a) == a \in DOMAIN DigitVal

At(s, i) == IF i \in 1..Len(s) THEN s[i] ELSE ""

Max(S) == CHOOSE x \in S : \A y \in S : y <= x

RECURSIVE Concat(_)
Concat(ss) == IF ss = <<>> THEN <<>> ELSE Head(ss) \o Concat(Tail(ss))

(***************************************************************************)
(* QString helpers.                                                        *)
(***************************************************************************)
RECURSIVE rightTrimmed(_)
rightTrimmed(s) ==
    IF s = <<>> THEN s
    ELSE IF IsSpace(s[Len(s)]) THEN rightTrimmed(SubSeq(s, 1, Len(s) - 1))
    ELSE s

RECURSIVE leftTrimmed(_)
leftTrimmed(s) ==
    IF s = <<>> THEN s
    ELSE IF IsSpace(Head(s)) THEN leftTrimmed(Tail(s))
    ELSE s

trimmed(s) == leftTrimmed(rightTrimmed(s))

startsWith(s, p) == Len(s) >= Len(p) /\ SubSeq(s, 1, Len(p)) = p

endsWith(s, p) == Len(s) >= Len(p) /\ SubSeq(s, Len(s) - Len(p) + 1, Len(s)) = p

\* QString::remove(const QString &): every occurrence of p is taken out.
RECURSIVE remove(_, _)
remove(s, p) ==
    IF s = <<>> THEN s
    ELSE IF startsWith(s, p) THEN remove(SubSeq(s, Len(p) + 1, Len(s)), p)
    ELSE <<Head(s)>> \o remove(Tail(s), p)

\* QString::toInt of a captured (\d+)?: the empty capture converts to 0.
RECURSIVE toInt(_)
toInt(s) ==
    IF s = <<>> THEN 0
    ELSE 10 * toInt(SubSeq(s, 1, Len(s) - 1)) + DigitVal[s[Len(s)]]

(***************************************************************************)
(* Utils::FileName::fromUserInput: QDir::cleanPath of the text, which      *)
(* folds a run of directory separators into one and drops a trailing one.  *)
(***************************************************************************)
SEP == "/"

RECURSIVE foldSeparators(_)
foldSeparators(s) ==
    IF Len(s) < 2 THEN s
    ELSE IF s[1] = SEP /\ s[2] = SEP THEN foldSeparators(Tail(s))
    ELSE <<Head(s)>> \o foldSeparators(Tail(s))

fromUserInput(s) ==
    LET f == foldSeparators(s)
    IN  IF Len(f) > 1 /\ f[Len(f)] = SEP THEN SubSeq(f, 1, Len(f) - 1) ELSE f

(***************************************************************************)
(* The phrases the parser looks for.                                       *)
(***************************************************************************)
ReferencedFrom == <<"referenced from", SP>>
Aborting       == <<"Fatal error", SP, "detected,", SP, "aborting.">>
CommandLine    == <<"Error", SP, "in", SP, "command", SP, "line">>
DetailIndent   == 12
DetailPrefix   == [i \in 1..DetailIndent |-> SP]

ErrorKeys == {"Error", "Fatal error"}
AllKeys   == {"Warning", "Error", "Fatal error"}

NoMatch == [hasMatch |-> FALSE]

Min(S) == CHOOSE x \in S : \A y \in S : x <= y

\* The first index >= a of s that holds no digit (Len(s) + 1 when there is none).
AfterDigits(s, a) == Min({p \in a..(Len(s) + 1) : ~IsDigit(At(s, p))})

\* The first index >= a of s that holds no white space.
AfterSpaces(s, a) == Min({p \in a..(Len(s) + 1) : ~IsSpace(At(s, p))})

(***************************************************************************)
(* ^(Error|Fatal error)\[(.+)\]:\s(.+)\s\[(.+)$                            *)
(* The groups are greedy: the message code takes the last "]:\s" that      *)
(* leaves a match, then the description takes the last "\s\[".             *)
(***************************************************************************)
PathBegins(s, i) ==
    {j \in (i + 4)..(Len(s) - 2) : IsSpace(s[j]) /\ s[j + 1] = "["}

CodeEnds1(s) ==
    {i \in 4..Len(s) : /\ s[i] = "]"
                       /\ At(s, i + 1) = ":"
                       /\ IsSpace(At(s, i + 2))
                       /\ PathBegins(s, i) # {}}

MatchSplitPath(s) ==
    IF At(s, 1) \in ErrorKeys /\ At(s, 2) = "[" /\ CodeEnds1(s) # {}
    THEN LET i == Max(CodeEnds1(s))
             j == Max(PathBegins(s, i))
         IN  [hasMatch      |-> TRUE,
              MessageType   |-> s[1],
              MessageCode   |-> SubSeq(s, 3, i - 1),
              Description   |-> SubSeq(s, i + 3, j - 1),
              FilepathBegin |-> SubSeq(s, j + 2, Len(s))]
    ELSE NoMatch

(***************************************************************************)
(* ^.*(Error|Fatal error)\[(.+)\]:\s(.+)$                                  *)
(* The greedy prefix takes the last keyword that leaves a match.           *)
(***************************************************************************)
CodeEnds2(s, k) ==
    {i \in (k + 3)..(Len(s) - 3) : /\ s[i] = "]"
                                   /\ s[i + 1] = ":"
                                   /\ IsSpace(s[i + 2])}

Keywords2(s) ==
    {k \in 1..Len(s) : /\ s[k] \in ErrorKeys
                       /\ At(s, k + 1) = "["
                       /\ CodeEnds2(s, k) # {}}

MatchNoPath(s) ==
    IF Keywords2(s) # {}
    THEN LET k == Max(Keywords2(s))
             i == Max(CodeEnds2(s, k))
         IN  [hasMatch    |-> TRUE,
              MessageType |-> s[k],
              MessageCode |-> SubSeq(s, k + 2, i - 1),
              Description |-> SubSeq(s, i + 3, Len(s))]
    ELSE NoMatch

(***************************************************************************)
(* ^"(.+)",(\d+)?\s+(Warning|Error|Fatal error)\[(.+)\].+$                 *)
(***************************************************************************)
CodeEnds3(s, b) == {i \in (b + 3)..(Len(s) - 1) : s[i] = "]"}

FileEnds3(s) ==
    {q \in 3..Len(s) :
        /\ s[q] = Q
        /\ At(s, q + 1) = ","
        /\ LET a == AfterDigits(s, q + 2)
               b == AfterSpaces(s, a)
           IN  /\ b > a
               /\ At(s, b) \in AllKeys
               /\ At(s, b + 1) = "["
               /\ CodeEnds3(s, b) # {}}

MatchFileLine(s) ==
    IF At(s, 1) = Q /\ FileEnds3(s) # {}
    THEN LET q == Max(FileEnds3(s))
             a == AfterDigits(s, q + 2)
             b == AfterSpaces(s, a)
             i == Max(CodeEnds3(s, b))
         IN  [hasMatch    |-> TRUE,
              FilePath    |-> SubSeq(s, 2, q - 1),
              LineNumber  |-> SubSeq(s, q + 2, a - 1),
              MessageType |-> s[b],
              MessageCode |-> SubSeq(s, b + 2, i - 1)]
    ELSE NoMatch

(***************************************************************************)
(* ProjectExplorer::Task.  A default-constructed or cleared task has id 0  *)
(* (Task::isNull); every constructed task takes the next id.               *)
(***************************************************************************)
CategoryCompile == "Task.Category.Compile"

NullTask ==
    [taskId |-> 0, type |-> "Unknown", description |-> <<>>, file |-> <<>>,
     line |-> -1, category |-> "", formats |-> <<>>]

Task(id, type, description, file, line) ==
    [taskId |-> id, type |-> type, description |-> description, file |-> file,
     line |-> line, category |-> CategoryCompile, formats |-> <<>>]

isNull(task) == task.taskId = 0

\* A taskType that forgets the fatal errors.
taskTypeWithoutFatal(msgType) ==
    IF msgType = "Warning" THEN "Warning"
    ELSE IF msgType = "Error" THEN "Error"
    ELSE "Unknown"

taskType(msgType) ==
    IF msgType = "Warning" THEN "Warning"
    ELSE IF msgType = "Error" \/ msgType = "Fatal error" THEN "Error"
    ELSE "Unknown"

\* QString("[%1]: %2").arg(code, description)
Described(code, description) == <<"[">> \o code \o <<"]", ":", SP>> \o description

VARIABLES
    m_lastTask,            \* the task being accumulated, NullTask when none
    m_lines,               \* output lines linked to m_lastTask
    m_expectSnippet,
    m_expectFilePath,
    m_expectDescription,
    m_snippets,
    m_filePathParts,
    m_descriptionParts,
    s_nextId,              \* Task::s_nextId
    tasks,                 \* what addTask has emitted, in order
    childStdOut,           \* lines handed to the next parser's stdOutput
    childStdErr,           \* lines handed to the next parser's stdError
    inputs,                \* history: every line delivered, with its channel
    origin,                \* history: index in inputs of the line that built m_lastTask
    log,                   \* history: per emitted task, its origin and when it was emitted
    done,                  \* the final flush has run
    astPath,               \* quick-fix: the AST path at the cursor, outermost node first
    result,                \* quick-fix: the operations match has returned
    matched                \* quick-fix: match has returned

parserVars == <<m_lastTask, m_lines, m_expectSnippet, m_expectFilePath,
                m_expectDescription, m_snippets, m_filePathParts,
                m_descriptionParts>>

vars == <<m_lastTask, m_lines, m_expectSnippet, m_expectFilePath,
          m_expectDescription, m_snippets, m_filePathParts, m_descriptionParts,
          s_nextId, tasks, childStdOut, childStdErr, inputs, origin, log, done,
          astPath, result, matched>>

quickFixVars == <<astPath, result, matched>>

\* The parser object as one value, with the index of the call being served.
Self ==
    [m_lastTask |-> m_lastTask, m_lines |-> m_lines,
     m_expectSnippet |-> m_expectSnippet, m_expectFilePath |-> m_expectFilePath,
     m_expectDescription |-> m_expectDescription, m_snippets |-> m_snippets,
     m_filePathParts |-> m_filePathParts, m_descriptionParts |-> m_descriptionParts,
     s_nextId |-> s_nextId, tasks |-> tasks, childStdOut |-> childStdOut,
     childStdErr |-> childStdErr, origin |-> origin, log |-> log,
     now |-> Len(inputs) + 1]

Commit(P) ==
    /\ m_lastTask' = P.m_lastTask
    /\ m_lines' = P.m_lines
    /\ m_expectSnippet' = P.m_expectSnippet
    /\ m_expectFilePath' = P.m_expectFilePath
    /\ m_expectDescription' = P.m_expectDescription
    /\ m_snippets' = P.m_snippets
    /\ m_filePathParts' = P.m_filePathParts
    /\ m_descriptionParts' = P.m_descriptionParts
    /\ s_nextId' = P.s_nextId
    /\ tasks' = P.tasks
    /\ childStdOut' = P.childStdOut
    /\ childStdErr' = P.childStdErr
    /\ origin' = P.origin
    /\ log' = P.log

\* QString::count: the characters of a text.
RECURSIVE count(_)
count(s) == IF s = <<>> THEN 0 ELSE Len(Head(s)) + count(Tail(s))

\* The snippet loop of amendDescription: each snippet goes after a newline
\* and gets a format range.
RECURSIVE appendSnippets(_, _)
appendSnippets(task, ss) ==
    IF ss = <<>> THEN task
    ELSE LET start == count(task.description) + 1
             d     == task.description \o <<NL>> \o Head(ss)
         IN  appendSnippets(
                 [task EXCEPT !.description = d,
                              !.formats = Append(@, [start  |-> start,
                                                     length |-> count(d) + 1])],
                 Tail(ss))

RECURSIVE TrimmedParts(_)
TrimmedParts(ss) ==
    IF ss = <<>> THEN <<>> ELSE trimmed(Head(ss)) \o TrimmedParts(Tail(ss))

\* An amendDescription that puts a blank between the parts of the description.
RECURSIVE SpacedParts(_)
SpacedParts(ss) ==
    IF ss = <<>> THEN <<>>
    ELSE Head(ss) \o (IF Tail(ss) = <<>> THEN <<>> ELSE <<SP>>) \o SpacedParts(Tail(ss))

amendDescriptionSpaced(P) ==
    [P EXCEPT !.m_lastTask =
                  appendSnippets(
                      [@ EXCEPT !.description = @ \o SpacedParts(P.m_descriptionParts)],
                      P.m_snippets),
              !.m_lines = @ + Len(P.m_snippets),
              !.m_descriptionParts = <<>>,
              !.m_snippets = <<>>]

amendDescription(P) ==
    [P EXCEPT !.m_lastTask =
                  appendSnippets(
                      [@ EXCEPT !.description = @ \o Concat(P.m_descriptionParts)],
                      P.m_snippets),
              !.m_lines = @ + Len(P.m_snippets),
              !.m_descriptionParts = <<>>,
              !.m_snippets = <<>>]

\* An amendFilePath that joins the parts with their indentation.
amendFilePathUntrimmed(P) ==
    IF P.m_filePathParts = <<>> THEN P
    ELSE [P EXCEPT !.m_lastTask.file = fromUserInput(Concat(P.m_filePathParts)),
                   !.m_filePathParts = <<>>,
                   !.m_expectFilePath = FALSE]

amendFilePath(P) ==
    IF P.m_filePathParts = <<>> THEN P
    ELSE [P EXCEPT !.m_lastTask.file = fromUserInput(TrimmedParts(P.m_filePathParts)),
                   !.m_filePathParts = <<>>,
                   !.m_expectFilePath = FALSE]

\* A doFlush that throws away what was buffered while no task was pending.
doFlushClearing(P) ==
    IF isNull(P.m_lastTask)
    THEN [P EXCEPT !.m_snippets = <<>>, !.m_descriptionParts = <<>>,
                   !.m_filePathParts = <<>>]
    ELSE LET A == amendFilePath(amendDescription(P))
         IN  [A EXCEPT !.m_expectSnippet = TRUE,
                       !.m_expectFilePath = FALSE,
                       !.m_expectDescription = FALSE,
                       !.m_lastTask = NullTask,
                       !.tasks = Append(@, [task |-> A.m_lastTask,
                                            linkedOutputLines |-> A.m_lines,
                                            skipLines |-> 1]),
                       !.m_lines = 0,
                       !.log = Append(@, [origin |-> A.origin, at |-> A.now]),
                       !.origin = 0]

doFlush(P) ==
    IF isNull(P.m_lastTask) THEN P
    ELSE LET A == amendFilePath(amendDescription(P))
         IN  [A EXCEPT !.m_expectSnippet = TRUE,
                       !.m_expectFilePath = FALSE,
                       !.m_expectDescription = FALSE,
                       !.m_lastTask = NullTask,
                       !.tasks = Append(@, [task |-> A.m_lastTask,
                                            linkedOutputLines |-> A.m_lines,
                                            skipLines |-> 1]),
                       !.m_lines = 0,
                       !.log = Append(@, [origin |-> A.origin, at |-> A.now]),
                       !.origin = 0]

\* A newTask that overwrites the pending task without flushing it.
newTaskWithoutFlush(P, task) ==
    [P EXCEPT !.m_lastTask = task, !.m_lines = 1, !.origin = P.now]

newTask(P, task) ==
    LET F == doFlush(P)
    IN  [F EXCEPT !.m_lastTask = task, !.m_lines = 1, !.origin = F.now]

\* IOutputParser::stdError and IOutputParser::stdOutput hand the line to the
\* next parser of the chain.
forwardStdError(P, line) == [P EXCEPT !.childStdErr = Append(@, line)]

forwardStdOutput(P, line) == [P EXCEPT !.childStdOut = Append(@, line)]

\* A continuation that appends the aborting line like any other snippet.
continuationKeepingAborting(P, lne) ==
    IF lne = <<>> THEN doFlush(P)
    ELSE IF ~startsWith(lne, <<SP>>) THEN P
    ELSE IF P.m_expectFilePath THEN
        IF endsWith(lne, <<"]">>)
        THEN doFlush([P EXCEPT !.m_filePathParts =
                                   Append(@, SubSeq(lne, 1, Len(lne) - 1))])
        ELSE [P EXCEPT !.m_filePathParts = Append(@, lne)]
    ELSE IF P.m_expectSnippet THEN [P EXCEPT !.m_snippets = Append(@, lne)]
    ELSE IF P.m_expectDescription THEN
        IF ~startsWith(lne, DetailPrefix)
        THEN [P EXCEPT !.m_descriptionParts = Append(@, trimmed(lne))]
        ELSE doFlush(P)
    ELSE doFlush(P)

\* A continuation without the early return for the lines that are not indented.
continuationWithoutReturn(P, lne) ==
    IF lne = <<>> THEN doFlush(P)
    ELSE IF P.m_expectFilePath THEN
        IF endsWith(lne, <<"]">>)
        THEN doFlush([P EXCEPT !.m_filePathParts =
                                   Append(@, SubSeq(lne, 1, Len(lne) - 1))])
        ELSE [P EXCEPT !.m_filePathParts = Append(@, lne)]
    ELSE IF P.m_expectSnippet THEN
        IF ~endsWith(lne, Aborting)
        THEN [P EXCEPT !.m_snippets = Append(@, lne)]
        ELSE doFlush(P)
    ELSE IF P.m_expectDescription THEN
        IF ~startsWith(lne, DetailPrefix)
        THEN [P EXCEPT !.m_descriptionParts = Append(@, trimmed(lne))]
        ELSE doFlush(P)
    ELSE doFlush(P)

\* The part of stdError that runs when no header pattern matches.
continuation(P, lne) ==
    IF lne = <<>> THEN doFlush(P)
    ELSE IF ~startsWith(lne, <<SP>>) THEN P
    ELSE IF P.m_expectFilePath THEN
        IF endsWith(lne, <<"]">>)
        THEN doFlush([P EXCEPT !.m_filePathParts =
                                   Append(@, SubSeq(lne, 1, Len(lne) - 1))])
        ELSE [P EXCEPT !.m_filePathParts = Append(@, lne)]
    ELSE IF P.m_expectSnippet THEN
        IF ~endsWith(lne, Aborting)
        THEN [P EXCEPT !.m_snippets = Append(@, lne)]
        ELSE doFlush(P)
    ELSE IF P.m_expectDescription THEN
        IF ~startsWith(lne, DetailPrefix)
        THEN [P EXCEPT !.m_descriptionParts = Append(@, trimmed(lne))]
        ELSE doFlush(P)
    ELSE doFlush(P)

\* stdError after the line was handed on: the three header patterns, then the
\* continuation lines.
consumeStdError(P, line) ==
    LET T   == [P EXCEPT !.s_nextId = @ + 1]
        lne == rightTrimmed(line)
        m1  == MatchSplitPath(lne)
        m2  == MatchNoPath(lne)
        m3  == MatchFileLine(lne)
    IN  IF m1.hasMatch THEN
            LET task == Task(P.s_nextId, taskType(m1.MessageType),
                             Described(m1.MessageCode, m1.Description), <<>>, -1)
            IN  [newTask(T, task) EXCEPT
                    !.m_filePathParts = Append(@, remove(m1.FilepathBegin, ReferencedFrom)),
                    !.m_expectFilePath = TRUE,
                    !.m_expectSnippet = FALSE]
        ELSE IF m2.hasMatch THEN
            LET task == Task(P.s_nextId, taskType(m2.MessageType),
                             Described(m2.MessageCode, m2.Description), <<>>, -1)
            IN  [newTask(T, task) EXCEPT
                    !.m_expectSnippet = TRUE,
                    !.m_expectFilePath = FALSE,
                    !.m_expectDescription = FALSE]
        ELSE IF m3.hasMatch THEN
            LET task == Task(P.s_nextId, taskType(m3.MessageType), <<>>,
                             fromUserInput(m3.FilePath), toInt(m3.LineNumber))
            IN  [newTask(T, task) EXCEPT
                    !.m_descriptionParts = Append(@, <<"[">> \o m3.MessageCode \o <<"]", ":", SP>>),
                    !.m_expectDescription = TRUE,
                    !.m_expectSnippet = FALSE,
                    !.m_expectFilePath = FALSE]
        ELSE continuation(P, lne)

\* A stdError that does not call the base class.
stdErrorNotForwarded(P0, line) == consumeStdError(P0, line)

stdError(P0, line) == consumeStdError(forwardStdError(P0, line), line)

\* A stdOutput that leaves the command-line task pending.
consumeStdOutputWithoutFlush(P, line) ==
    LET lne == rightTrimmed(line)
    IN  IF ~startsWith(lne, CommandLine) THEN P
        ELSE LET task == Task(P.s_nextId, "Error", trimmed(line), <<>>, -1)
             IN  newTask([P EXCEPT !.s_nextId = @ + 1], task)

\* A stdOutput that flushes the pending task at every line.
consumeStdOutputFlushing(P, line) ==
    LET lne == rightTrimmed(line)
    IN  IF ~startsWith(lne, CommandLine) THEN doFlush(P)
        ELSE LET task == Task(P.s_nextId, "Error", trimmed(line), <<>>, -1)
             IN  doFlush(newTask([P EXCEPT !.s_nextId = @ + 1], task))

\* stdOutput after the line was handed on.
consumeStdOutput(P, line) ==
    LET lne == rightTrimmed(line)
    IN  IF ~startsWith(lne, CommandLine) THEN P
        ELSE LET task == Task(P.s_nextId, "Error", trimmed(line), <<>>, -1)
             IN  doFlush(newTask([P EXCEPT !.s_nextId = @ + 1], task))

stdOutput(P0, line) == consumeStdOutput(forwardStdOutput(P0, line), line)

(***************************************************************************)
(* The lines the compiler is taken to print.                               *)
(***************************************************************************)
Indent(n) == [i \in 1..n |-> SP]

\* <Error|Fatal error>[<code>]: <text> [<path begin>
SplitPathHeader(key, code, text, path) ==
    <<key, "[">> \o code \o <<"]", ":", SP>> \o text \o <<SP, "[">> \o path

\* <prefix><Error|Fatal error>[<code>]: <text>
NoPathHeader(prefix, key, code, text) ==
    prefix \o <<key, "[">> \o code \o <<"]", ":", SP>> \o text

\* "<file>",<line> <Warning|Error|Fatal error>[<code>]:
FileLineHeader(file, number, key, code) ==
    <<Q>> \o file \o <<Q, ",">> \o number \o <<SP, key, "[">> \o code \o <<"]", ":">>

FileMain  == <<"c:", "\\", "foo", "\\", "main.c">>
FileDir   == <<"src", SEP, SEP, "main.c">>
Line63    == <<"6", "3">>
TextSome  == <<"Some", SP, "error", SP, Q, "foo", Q>>
TextColon == <<"Some", SP, "error", ":">>
PathRef   == <<"referenced from", SP, "c:", "\\", "fo">>
PathDir   == <<"lib", SEP>>

Sometext     == <<"Sometext">>
Bracket      == <<"]">>
Blank        == <<SP, SP>>
Tabbed       == <<TAB, "detail">>
Detail       == Indent(6) \o <<"some_detail;", SP>>
Caret        == Indent(6) \o <<"^">>
Wide         == Indent(DetailIndent) \o <<"c:", "\\", "bar.c">>
Wider        == Indent(DetailIndent + 10) \o <<"c:", "\\", "foo.c">>
PathPart     == Indent(9) \o <<"o", "\\", "bar", "\\", "mai">>
PathSlash    == Indent(9) \o <<SEP, "main.o">>
PathClose    == Indent(9) \o <<"n.c.o", "]">>
AbortIndent  == Indent(2) \o Aborting
WarningHdr   == FileLineHeader(FileMain, Line63, "Warning", <<"Pe223">>)
ErrorHdr     == FileLineHeader(FileDir, Line63, "Error", <<"Pe223">>)
NoLineHdr    == FileLineHeader(FileMain, <<>>, "Fatal error", <<"Pe223">>)
SplitHdr     == SplitPathHeader("Error", <<"Li005">>, TextSome, PathRef)
SplitDirHdr  == SplitPathHeader("Fatal error", <<"Li006">>, TextColon, PathDir)
FatalHdr     == NoPathHeader(<<>>, "Fatal error", <<"Su011">>, TextColon)
EndOfSrcHdr  == NoPathHeader(<<"At end of source", SP, SP>>, "Error", <<"Pe040">>, TextSome)
ErrorTextHdr == ErrorHdr \o <<SP>> \o TextSome
CmdLine      == CommandLine \o <<":", SP, "Some", SP, "error", SP>>
CmdIndented  == <<SP>> \o CmdLine

MaxLines == 4

ErrLines == {Sometext, Bracket, Aborting, Tabbed, Blank, Detail, WarningHdr,
             SplitHdr, FatalHdr}
OutLines == {Sometext, CmdLine, CmdIndented}

InitParser ==
    /\ m_lastTask = NullTask
    /\ m_lines = 0
    /\ m_expectSnippet = TRUE
    /\ m_expectFilePath = FALSE
    /\ m_expectDescription = FALSE
    /\ m_snippets = <<>>
    /\ m_filePathParts = <<>>
    /\ m_descriptionParts = <<>>
    /\ s_nextId = 1
    /\ tasks = <<>>
    /\ childStdOut = <<>>
    /\ childStdErr = <<>>
    /\ inputs = <<>>
    /\ origin = 0
    /\ log = <<>>
    /\ done = FALSE

Init ==
    /\ InitParser
    /\ astPath = <<>>
    /\ result = <<>>
    /\ matched = FALSE

StdError(line) ==
    /\ ~done
    /\ Len(inputs) < MaxLines
    /\ Commit(stdError(Self, line))
    /\ inputs' = Append(inputs, [channel |-> "stderr", line |-> line])
    /\ done' = done
    /\ UNCHANGED quickFixVars

StdOutput(line) ==
    /\ ~done
    /\ Len(inputs) < MaxLines
    /\ Commit(stdOutput(Self, line))
    /\ inputs' = Append(inputs, [channel |-> "stdout", line |-> line])
    /\ done' = done
    /\ UNCHANGED quickFixVars

\* IOutputParser::flush at the end of the build step.
Flush ==
    /\ ~done
    /\ Commit(doFlush(Self))
    /\ done' = TRUE
    /\ UNCHANGED inputs
    /\ UNCHANGED quickFixVars

Next ==
    \/ \E line \in ErrLines : StdError(line)
    \/ \E line \in OutLines : StdOutput(line)
    \/ Flush

Spec == Init /\ [][Next]_vars

\* The compiler prints diagnostics with a file and a line, whose description
\* comes on the lines that follow.
DescriptionErrLines == {WarningHdr, ErrorHdr, NoLineHdr, ErrorTextHdr, Detail,
                        Caret, Wide, AbortIndent, Blank}
DescriptionOutLines == {Sometext}

NextDescriptions ==
    \/ \E line \in DescriptionErrLines : StdError(line)
    \/ \E line \in DescriptionOutLines : StdOutput(line)
    \/ Flush

SpecDescriptions == Init /\ [][NextDescriptions]_vars

\* The compiler prints diagnostics without file, with their detail lines.
DetailErrLines == {FatalHdr, EndOfSrcHdr, ErrorTextHdr, WarningHdr, Detail, Wider,
                   AbortIndent, Aborting, Blank}
DetailOutLines == {Sometext}

NextDetails ==
    \/ \E line \in DetailErrLines : StdError(line)
    \/ \E line \in DetailOutLines : StdOutput(line)
    \/ Flush

SpecDetails == Init /\ [][NextDetails]_vars

\* The linker prints diagnostics whose file path is split over lines.
PathErrLines == {SplitHdr, SplitDirHdr, PathPart, PathSlash, PathClose, Bracket,
                 Detail, Blank, Sometext}
PathOutLines == {Sometext}

NextPaths ==
    \/ \E line \in PathErrLines : StdError(line)
    \/ \E line \in PathOutLines : StdOutput(line)
    \/ Flush

SpecPaths == Init /\ [][NextPaths]_vars

(***************************************************************************)
(* The "Extract Component" quick-fix of the QML editor.                    *)
(*                                                                         *)
(* A pointer is a sequence: <<>> is the null pointer, <<x>> points to x.   *)
(* A linked list is the sequence of its elements.  A node of the AST path  *)
(* is a record with its kind; an object definition also has its            *)
(* initializer.  An operation points to its object definition by the       *)
(* index of that node in the path, counted from 0 as the code counts.      *)
(***************************************************************************)
\* A UiQualifiedId list of the given names.
QualifiedId(names) == [k \in 1..Len(names) |-> [name |-> <<names[k]>>]]

\* <qualified id>: <expression>
ScriptBinding(names, kind, value) ==
    [kind |-> "UiScriptBinding", qualifiedId |-> QualifiedId(names),
     statement |-> [kind |-> "ExpressionStatement",
                    expression |-> <<[kind |-> kind, value |-> value]>>]]

IdIdentifier == ScriptBinding(<<"id">>, "IdentifierExpression", "rect")      \* id: rect
IdString == ScriptBinding(<<"id">>, "StringLiteral", "box")                  \* id: "box"
IdEmptyString == ScriptBinding(<<"id">>, "StringLiteral", "")                \* id: ""
IdNumber == ScriptBinding(<<"id">>, "NumericLiteral", "5")                   \* id: 5
Width == ScriptBinding(<<"width">>, "NumericLiteral", "5")                   \* width: 5
AnchorsId == ScriptBinding(<<"anchors", "id">>, "IdentifierExpression", "rect")
\* id { rect }
IdBlock == [kind |-> "UiScriptBinding", qualifiedId |-> QualifiedId(<<"id">>),
            statement |-> [kind |-> "Block", expression |-> <<>>]]
\* a script binding without qualified id, and one whose qualified id has no name
IdMissing == [kind |-> "UiScriptBinding", qualifiedId |-> <<>>,
              statement |-> IdIdentifier.statement]
NameMissing == [kind |-> "UiScriptBinding", qualifiedId |-> <<[name |-> <<>>]>>,
                statement |-> IdIdentifier.statement]
\* property int id: rect
PublicMember == [kind |-> "UiPublicMember", qualifiedId |-> QualifiedId(<<"id">>),
                 statement |-> IdIdentifier.statement]

UiProgram == [kind |-> "UiProgram", initializer |-> <<>>]
UiObjectBinding ==
    [kind |-> "UiObjectBinding", initializer |-> <<[members |-> <<IdIdentifier>>]>>]
UiObjectDefinition(members) ==
    [kind |-> "UiObjectDefinition", initializer |-> <<[members |-> members]>>]
UiObjectDefinitionBare == [kind |-> "UiObjectDefinition", initializer |-> <<>>]

\* cast<T *>(node)
cast(kind, node) == IF node.kind = kind THEN <<node>> ELSE <<>>

\* The loop of getIdProperty from the k-th member on.
RECURSIVE getIdPropertyFrom(_, _)
getIdPropertyFrom(members, k) ==
    IF k > Len(members) THEN ""
    ELSE LET script == cast("UiScriptBinding", members[k])
             next == getIdPropertyFrom(members, k + 1)
         IN  IF script = <<>> THEN next
             ELSE IF script[1].qualifiedId = <<>> THEN next
             ELSE IF Len(script[1].qualifiedId) > 1 THEN next
             ELSE IF script[1].qualifiedId[1].name = <<>> THEN next
             ELSE IF script[1].qualifiedId[1].name[1] # "id" THEN next
             ELSE LET expStmt == cast("ExpressionStatement", script[1].statement)
                  IN  IF expStmt = <<>> THEN next
                      ELSE IF expStmt[1].expression[1].kind
                                  \in {"IdentifierExpression", "StringLiteral"}
                           THEN expStmt[1].expression[1].value
                           ELSE next

getIdProperty(def) ==
    IF def # <<>> /\ def[1].initializer # <<>>
    THEN getIdPropertyFrom(def[1].initializer[1].members, 1)
    ELSE ""

\* new Operation(state, objDef)
Operation(objDef) ==
    [objDef |-> objDef, description |-> "Extract Component", priority |-> 0]

\* path.at(i)
NodeAt(path, i) == path[i + 1]

\* match offering the root object as well.
RECURSIVE matchOfferingRootFrom(_, _)
matchOfferingRootFrom(path, i) ==
    IF i < 0 THEN <<>>
    ELSE LET objDef == cast("UiObjectDefinition", NodeAt(path, i))
         IN  IF /\ objDef # <<>>
                /\ getIdProperty(objDef) # ""
             THEN <<Operation(i)>>
             ELSE matchOfferingRootFrom(path, i - 1)

matchOfferingRoot(path) == matchOfferingRootFrom(path, Len(path) - 1)

\* The loop of match from index i down to 0.
RECURSIVE matchFrom(_, _)
matchFrom(path, i) ==
    IF i < 0 THEN <<>>
    ELSE LET objDef == cast("UiObjectDefinition", NodeAt(path, i))
         IN  IF /\ objDef # <<>>
                /\ i > 0
                /\ cast("UiProgram", NodeAt(path, i - 1)) = <<>>
                /\ getIdProperty(objDef) # ""
             THEN <<Operation(i)>>
             ELSE matchFrom(path, i - 1)

match(path) == matchFrom(path, Len(path) - 1)

\* The nodes a path is made of, and the paths up to MaxPath nodes.
MaxPath == 4
Nodes ==
    {UiProgram, UiObjectBinding, UiObjectDefinitionBare,
     UiObjectDefinition(<<>>),
     UiObjectDefinition(<<IdIdentifier>>),
     UiObjectDefinition(<<Width, IdString>>),
     UiObjectDefinition(<<IdEmptyString, IdIdentifier>>),
     UiObjectDefinition(<<IdNumber, AnchorsId, IdBlock>>),
     UiObjectDefinition(<<IdMissing, NameMissing, PublicMember>>)}
AstPaths == UNION {[1..n -> Nodes] : n \in 0..MaxPath}

\* The editor asks for the quick-fixes at a cursor position.
InitMatch ==
    /\ InitParser
    /\ astPath \in AstPaths
    /\ result = <<>>
    /\ matched = FALSE

MatchAtCursor ==
    /\ ~matched
    /\ result' = match(astPath)
    /\ matched' = TRUE
    /\ UNCHANGED astPath
    /\ UNCHANGED <<m_lastTask, m_lines, m_expectSnippet, m_expectFilePath,
                   m_expectDescription, m_snippets, m_filePathParts,
                   m_descriptionParts, s_nextId, tasks, childStdOut, childStdErr,
                   inputs, origin, log, done>>

NextMatch == MatchAtCursor

SpecMatch == InitMatch /\ [][NextMatch]_vars

(***************************************************************************)
(* What the history says, without looking at the parser.                   *)
(***************************************************************************)
Range(s) == {s[i] : i \in 1..Len(s)}

IsStdErrHeader(line) ==
    LET lne == rightTrimmed(line)
    IN  \/ MatchSplitPath(lne).hasMatch
        \/ MatchNoPath(lne).hasMatch
        \/ MatchFileLine(lne).hasMatch

IsStdOutHeader(line) == startsWith(rightTrimmed(line), CommandLine)

IsHeader(in) ==
    IF in.channel = "stderr" THEN IsStdErrHeader(in.line) ELSE IsStdOutHeader(in.line)

\* The lines delivered on one channel, in arrival order.
RECURSIVE ChannelOf(_, _)
ChannelOf(ins, channel) ==
    IF ins = <<>> THEN <<>>
    ELSE (IF Head(ins).channel = channel THEN <<Head(ins).line>> ELSE <<>>)
         \o ChannelOf(Tail(ins), channel)

\* The indexes of the header lines, in arrival order.
RECURSIVE HeadersFrom(_)
HeadersFrom(n) ==
    IF n > Len(inputs) THEN <<>>
    ELSE (IF IsHeader(inputs[n]) THEN <<n>> ELSE <<>>) \o HeadersFrom(n + 1)

Headers == HeadersFrom(1)

Pending == IF isNull(m_lastTask) THEN 0 ELSE 1

\* C1: every line is handed unchanged, once and in arrival order, to the next
\* parser on its own channel: the lines the child got on stderr are the lines
\* delivered on stderr, and likewise on stdout.
PassThrough ==
    /\ childStdErr = ChannelOf(inputs, "stderr")
    /\ childStdOut = ChannelOf(inputs, "stdout")

\* C1 witness: both channels carried lines, one of them a header that became
\* a task and one with trailing white space.
PassThroughWitness ==
    /\ Len(childStdErr) >= 2
    /\ Len(childStdOut) >= 1
    /\ Len(tasks) >= 1
    /\ \E i \in 1..Len(childStdErr) : IsStdErrHeader(childStdErr[i])
    /\ \E i \in 1..Len(childStdErr) : rightTrimmed(childStdErr[i]) # childStdErr[i]

\* C2: no task is lost or duplicated: the tasks emitted, plus the pending one,
\* are as many as the header lines received; the i-th task emitted stems from
\* the i-th header line; after the final flush every header has its task.
TasksFollowHeaders ==
    LET headers == Headers
    IN  /\ Len(tasks) + Pending = Len(headers)
        /\ Len(log) = Len(tasks)
        /\ \A i \in 1..Len(log) : log[i].origin = headers[i]
        /\ Pending = 1 => origin = headers[Len(headers)]
        /\ done => Len(tasks) = Len(headers)

\* C2 witness: the final flush has run after two headers and some lines that
\* are no headers.
TasksFollowHeadersWitness ==
    /\ done
    /\ Len(tasks) = 2
    /\ Len(inputs) > 3
    /\ log[2].at > Len(inputs)

\* The header keywords that stand in a line.
KeysIn(line) == Range(line) \cap AllKeys

\* C3: an emitted task is a Warning when the keyword of its header is Warning
\* and an Error when it is Error or Fatal error; it is never of type Unknown
\* and always of the compile category.
SeverityClassified ==
    \A i \in 1..Len(tasks) :
        LET t    == tasks[i].task
            keys == KeysIn(inputs[log[i].origin].line)
        IN  /\ t.type \in {"Warning", "Error"}
            /\ t.category = CategoryCompile
            /\ keys = {"Warning"} => t.type = "Warning"
            /\ (keys # {} /\ keys \subseteq ErrorKeys) => t.type = "Error"

\* C3 witness: a warning and a fatal error have both been emitted.
SeverityClassifiedWitness ==
    /\ \E i \in 1..Len(tasks) :
          tasks[i].task.type = "Warning" /\ KeysIn(inputs[log[i].origin].line) = {"Warning"}
    /\ \E i \in 1..Len(tasks) :
          tasks[i].task.type = "Error" /\ KeysIn(inputs[log[i].origin].line) = {"Fatal error"}

(***************************************************************************)
(* The description and the file a task must have, read off the history.    *)
(***************************************************************************)
OriginOf(i) == inputs[log[i].origin]

\* When the task before the i-th was emitted (0 for the first task).
PreviousAt(i) == IF i = 1 THEN 0 ELSE log[i - 1].at

IsIndented(in) ==
    /\ in.channel = "stderr"
    /\ startsWith(rightTrimmed(in.line), <<SP>>)

EndsAborting(in) == endsWith(rightTrimmed(in.line), Aborting)

\* The indented stderr lines among inputs[a..b], right-trimmed.
\* Detail lines as they must stand in a description: each after a newline.
RECURSIVE Snippets(_)
Snippets(ss) == IF ss = <<>> THEN <<>> ELSE <<NL>> \o Head(ss) \o Snippets(Tail(ss))

RECURSIVE IndentedIn(_, _)
IndentedIn(a, b) ==
    IF a > b THEN <<>>
    ELSE (IF IsIndented(inputs[a]) THEN <<rightTrimmed(inputs[a].line)>> ELSE <<>>)
         \o IndentedIn(a + 1, b)

\* The same without the lines that end with "Fatal error detected, aborting.".
RECURSIVE DetailsIn(_, _)
DetailsIn(a, b) ==
    IF a > b THEN <<>>
    ELSE (IF IsIndented(inputs[a]) /\ ~EndsAborting(inputs[a])
          THEN <<rightTrimmed(inputs[a].line)>> ELSE <<>>)
         \o DetailsIn(a + 1, b)

\* The detail lines that arrived between the previous emission and the header
\* of the i-th task, while no task was pending.
DetailsBefore(i) == DetailsIn(PreviousAt(i) + 1, log[i].origin - 1)

\* The stdout headers are answered in their own call, after the pending task.
CommandLineOrder ==
    /\ \A n \in 1..Len(inputs) :
          (inputs[n].channel = "stdout" /\ IsHeader(inputs[n]))
              => /\ \E i \in 1..Len(log) : log[i].origin = n /\ log[i].at = n
                 /\ \A j \in 1..Len(log) : log[j].origin < n => log[j].at <= n
                 /\ Pending = 1 => origin > n
    /\ \A i, j \in 1..Len(log) : (log[i].at = log[j].at /\ log[i].origin < log[j].origin) => i < j

\* C4 as claimed: a stdout line that starts with "Error in command line" gives
\* in its own call, whatever came before, an Error task whose description is
\* exactly the trimmed line, with no file and line -1, after the pending task.
CommandLineTaskExact ==
    /\ CommandLineOrder
    /\ \A i \in 1..Len(tasks) :
          OriginOf(i).channel = "stdout"
              => /\ tasks[i].task.type = "Error"
                 /\ tasks[i].task.description = trimmed(OriginOf(i).line)
                 /\ tasks[i].task.file = <<>>
                 /\ tasks[i].task.line = -1

\* C4 amended: the description is the trimmed line followed by the stderr
\* detail lines buffered while no task was pending, each after a newline; it
\* is exactly the trimmed line when there are none, as after a pending task.
CommandLineTask ==
    /\ CommandLineOrder
    /\ \A i \in 1..Len(tasks) :
          OriginOf(i).channel = "stdout"
              => /\ tasks[i].task.type = "Error"
                 /\ tasks[i].task.description =
                        trimmed(OriginOf(i).line) \o Snippets(DetailsBefore(i))
                 /\ tasks[i].task.file = <<>>
                 /\ tasks[i].task.line = -1
                 /\ (i > 1 /\ log[i - 1].at = log[i].at)
                        => tasks[i].task.description = trimmed(OriginOf(i).line)

\* C4 witness: one command-line task took buffered detail lines along, another
\* was emitted right after the pending stderr task, in the same call.
CommandLineTaskWitness ==
    /\ \E i \in 1..Len(tasks) :
          /\ OriginOf(i).channel = "stdout"
          /\ tasks[i].task.description # trimmed(OriginOf(i).line)
    /\ \E i \in 2..Len(tasks) :
          /\ OriginOf(i).channel = "stdout"
          /\ OriginOf(i - 1).channel = "stderr"
          /\ log[i - 1].at = log[i].at

(***************************************************************************)
(* The parts the headers of the claims are made of.                        *)
(***************************************************************************)
Files    == {FileMain, FileDir}
Numbers  == {[text |-> Line63, value |-> 63]}
Codes    == {<<"Pe223">>, <<"Li005">>, <<"Li006">>, <<"Su011">>, <<"Pe040">>}
Texts    == {TextSome, TextColon}
Paths    == {PathRef, PathDir}
Prefixes == {<<>>, <<"At end of source", SP, SP>>,
             <<Q>> \o FileDir \o <<Q, ",">> \o Line63 \o <<SP>>}

Contains(s, p) == \E k \in 1..(Len(s) - Len(p) + 1) : SubSeq(s, k, k + Len(p) - 1) = p

\* Where the first newline of a description stands (Len + 1 when it has none):
\* the task's own text ends before it.
FirstNewline(d) == Min({k \in 1..(Len(d) + 1) : At(d, k) = NL \/ k = Len(d) + 1})

\* The indented lines that followed the header of the i-th task until it was
\* emitted.
Following(i) == IndentedIn(log[i].origin + 1, log[i].at - 1)

IsFileLineTask(i, file, number, key, code) ==
    /\ OriginOf(i).channel = "stderr"
    /\ rightTrimmed(OriginOf(i).line) = FileLineHeader(file, number.text, key, code)

\* C5 as claimed: the task of a header "<file>",<line> <keyword>[<code>]: has
\* the header's file and line, and its description is "[<code>]: " followed by
\* the trimmed continuation lines, in arrival order, with nothing in between.
FileLineTaskExact ==
    \A i \in 1..Len(tasks), file \in Files, number \in Numbers, key \in AllKeys,
       code \in Codes :
        IsFileLineTask(i, file, number, key, code)
            => /\ tasks[i].task.file = fromUserInput(file)
               /\ tasks[i].task.line = number.value
               /\ tasks[i].task.description =
                      <<"[">> \o code \o <<"]", ":", SP>> \o TrimmedParts(Following(i))

\* C5 amended: the description goes on with the detail lines that were
\* buffered before the header, each after a newline; it is as claimed when no
\* detail line was buffered.
FileLineTask ==
    \A i \in 1..Len(tasks), file \in Files, number \in Numbers, key \in AllKeys,
       code \in Codes :
        IsFileLineTask(i, file, number, key, code)
            => /\ tasks[i].task.file = fromUserInput(file)
               /\ tasks[i].task.line = number.value
               /\ tasks[i].task.description =
                      <<"[">> \o code \o <<"]", ":", SP>> \o TrimmedParts(Following(i))
                      \o Snippets(DetailsBefore(i))

\* C5 witness: a file-and-line task was emitted whose description was split
\* over two continuation lines, and another one that had detail lines before
\* its header.
FileLineTaskWitness ==
    /\ \E i \in 1..Len(tasks), file \in Files, number \in Numbers, key \in AllKeys,
          code \in Codes :
          IsFileLineTask(i, file, number, key, code) /\ Len(Following(i)) >= 2
    /\ \E i \in 1..Len(tasks), file \in Files, number \in Numbers, key \in AllKeys,
          code \in Codes :
          IsFileLineTask(i, file, number, key, code) /\ DetailsBefore(i) # <<>>

\* When the last task was emitted (0 when none was).
LastAt == IF log = <<>> THEN 0 ELSE log[Len(log)].at

\* The last line that arrived while no task was pending and after the last
\* emission.
LastUnattached == IF Pending = 1 THEN origin - 1 ELSE Len(inputs)

\* What follows the own text of the i-th task's description.
AfterOwnText(i) ==
    LET d == tasks[i].task.description
    IN  SubSeq(d, FirstNewline(d), Len(d))

\* C6 as claimed: every indented stderr line received while no task is pending
\* is buffered as a snippet, is no task, and is appended to the description of
\* the next task emitted, after the task's own text, after a newline, with its
\* indentation and in arrival order.
DetailLinesKeptAll ==
    /\ \A i \in 1..Len(tasks) :
          /\ IsHeader(OriginOf(i))
          /\ startsWith(AfterOwnText(i),
                        Snippets(IndentedIn(PreviousAt(i) + 1, log[i].origin - 1)))
    /\ startsWith(m_snippets, IndentedIn(LastAt + 1, LastUnattached))

\* C6 amended: this holds of the indented lines that do not end with "Fatal
\* error detected, aborting."; an indented line that ends with it is dropped.
DetailLinesKept ==
    /\ \A i \in 1..Len(tasks) :
          /\ IsHeader(OriginOf(i))
          /\ startsWith(AfterOwnText(i), Snippets(DetailsBefore(i)))
          /\ ~Contains(Snippets(DetailsBefore(i)), Aborting)
    /\ startsWith(m_snippets, DetailsIn(LastAt + 1, LastUnattached))
    /\ Pending = 0 => m_snippets = DetailsIn(LastAt + 1, LastUnattached)

\* C6 witness: a task was emitted that took along two different detail lines
\* received before its header.
DetailLinesKeptWitness ==
    \E i \in 1..Len(tasks) :
        /\ Len(DetailsBefore(i)) >= 2
        /\ DetailsBefore(i)[1] # DetailsBefore(i)[2]
        /\ tasks[i].task.description # Snippets(DetailsBefore(i))

IsNoPathTask(i, prefix, key, code, text) ==
    /\ OriginOf(i).channel = "stderr"
    /\ rightTrimmed(OriginOf(i).line) = NoPathHeader(prefix, key, code, text)

\* What C8 says of the i-th task when its header has these parts.
NoPathTaskFields(i, code, text) ==
    /\ tasks[i].task.file = <<>>
    /\ tasks[i].task.line = -1
    /\ tasks[i].task.type = "Error"
    /\ startsWith(tasks[i].task.description, Described(code, text))
    /\ tasks[i].task.description =
           Described(code, text) \o Snippets(DetailsBefore(i)) \o Snippets(Following(i))

\* C8 as claimed: the task of <prefix><Error|Fatal error>[<code>]: <text> has
\* no file, line -1 and a description that starts with "[<code>]: <text>";
\* the indented lines that follow are appended after a newline each, with
\* their indentation; and "Fatal error detected, aborting." stands in no task
\* description at all.
NoPathTaskExact ==
    /\ \A i \in 1..Len(tasks), prefix \in Prefixes, key \in ErrorKeys, code \in Codes,
          text \in Texts :
          IsNoPathTask(i, prefix, key, code, text) => NoPathTaskFields(i, code, text)
    /\ \A i \in 1..Len(tasks) : ~Contains(tasks[i].task.description, Aborting)

\* C8 amended: "Fatal error detected, aborting." never stands in the
\* description of such a task (after such a header an indented line that ends
\* with it ends the task, and the line that is not indented is ignored).
NoPathTask ==
    \A i \in 1..Len(tasks), prefix \in Prefixes, key \in ErrorKeys, code \in Codes,
       text \in Texts :
        IsNoPathTask(i, prefix, key, code, text)
            => /\ NoPathTaskFields(i, code, text)
               /\ ~Contains(tasks[i].task.description, Aborting)

\* C8 witness: a task without file was emitted with two indented lines after
\* its header, flushed by an indented line that ends with the aborting phrase.
NoPathTaskWitness ==
    /\ \E i \in 1..Len(tasks), key \in ErrorKeys, code \in Codes, text \in Texts :
          /\ IsNoPathTask(i, <<>>, key, code, text)
          /\ Len(Following(i)) >= 2
          /\ log[i].at <= Len(inputs)
          /\ EndsAborting(inputs[log[i].at])

IsSplitPathTask(i, key, code, text, path) ==
    /\ OriginOf(i).channel = "stderr"
    /\ rightTrimmed(OriginOf(i).line) = SplitPathHeader(key, code, text, path)

\* The indented lines that followed the header of the i-th task, the one that
\* had it emitted included.
FollowingThrough(i) ==
    IndentedIn(log[i].origin + 1,
               IF log[i].at <= Len(inputs) /\ ~IsHeader(inputs[log[i].at])
               THEN log[i].at ELSE log[i].at - 1)

\* What an indented line that ends with "]" and so ends the i-th task adds to
\* the path: its text without the "]".
ClosingPart(i) ==
    LET n == log[i].at
    IN  IF /\ n <= Len(inputs)
           /\ IsIndented(inputs[n])
           /\ ~IsHeader(inputs[n])
           /\ endsWith(rightTrimmed(inputs[n].line), <<"]">>)
        THEN LET lne == rightTrimmed(inputs[n].line)
             IN  <<SubSeq(lne, 1, Len(lne) - 1)>>
        ELSE <<>>

\* C7 as claimed: the task of <Error|Fatal error>[<code>]: <text> [<path begin>
\* has the description "[<code>]: <text>", line -1, and as file the path
\* fragment of the header, without "referenced from ", followed by the trimmed
\* text of every indented line that follows, in arrival order; a line "]"
\* that is not indented adds nothing.  (A file is compared as the FileName
\* that Utils::FileName::fromUserInput makes of the text.)
SplitPathTaskExact ==
    \A i \in 1..Len(tasks), key \in ErrorKeys, code \in Codes, text \in Texts,
       path \in Paths :
        IsSplitPathTask(i, key, code, text, path)
            => /\ tasks[i].task.description = Described(code, text)
               /\ tasks[i].task.line = -1
               /\ tasks[i].task.file =
                      fromUserInput(remove(path, ReferencedFrom)
                                    \o TrimmedParts(FollowingThrough(i)))

\* C7 amended: the description starts with "[<code>]: <text>" and goes on
\* with the detail lines buffered before the header, each after a newline;
\* an indented line that ends with "]" adds its trimmed text without that "]"
\* and ends the task, which is emitted at once.
SplitPathTask ==
    \A i \in 1..Len(tasks), key \in ErrorKeys, code \in Codes, text \in Texts,
       path \in Paths :
        IsSplitPathTask(i, key, code, text, path)
            => /\ tasks[i].task.description =
                      Described(code, text) \o Snippets(DetailsBefore(i))
               /\ tasks[i].task.line = -1
               /\ tasks[i].task.type = "Error"
               /\ tasks[i].task.file =
                      fromUserInput(remove(path, ReferencedFrom)
                                    \o TrimmedParts(Following(i))
                                    \o TrimmedParts(ClosingPart(i)))
               /\ \A n \in (log[i].origin + 1)..Len(inputs) :
                      (/\ IsIndented(inputs[n])
                       /\ endsWith(rightTrimmed(inputs[n].line), <<"]">>))
                          => log[i].at <= n

\* C7 witness: a task with a split path was emitted by an indented line that
\* ends with "]", after another indented line and a "]" that is not indented.
SplitPathTaskWitness ==
    \E i \in 1..Len(tasks), key \in ErrorKeys, code \in Codes, text \in Texts,
       path \in Paths :
        /\ IsSplitPathTask(i, key, code, text, path)
        /\ Following(i) # <<>>
        /\ ClosingPart(i) # <<>>
        /\ \E n \in (log[i].origin + 1)..(log[i].at - 1) :
              rightTrimmed(inputs[n].line) = Bracket

(***************************************************************************)
(* The lines that must change nothing.                                     *)
(***************************************************************************)
Last(s) == s[Len(s)]

Delivered == Len(inputs') = Len(inputs) + 1

IsPlainStdErr(in) ==
    /\ in.channel = "stderr"
    /\ rightTrimmed(in.line) # <<>>
    /\ ~startsWith(in.line, <<SP>>)
    /\ ~IsStdErrHeader(in.line)

\* C9: a stderr line that is not empty after right-trimming, does not start
\* with a space and matches no header pattern emits no task and leaves the
\* pending task, the line counter, the three flags and the three buffers as
\* they were.
PlainStdErrIgnored ==
    [][(Delivered /\ IsPlainStdErr(Last(inputs')))
           => UNCHANGED <<parserVars, tasks, s_nextId>>]_vars

\* C9 witness: such a line has just arrived while a task with a split path
\* was pending with parts of its path buffered.
PlainStdErrIgnoredWitness ==
    /\ inputs # <<>>
    /\ IsPlainStdErr(Last(inputs))
    /\ Last(inputs).line \in {Bracket, Aborting}
    /\ Pending = 1
    /\ m_expectFilePath
    /\ m_filePathParts # <<>>
    /\ origin < Len(inputs)

\* C10: a stdout line that does not start with "Error in command line" emits
\* no task and leaves the parser as it was, so that a stderr task that is
\* being accumulated does not see the stdout lines that come in between.
PlainStdOutIgnored ==
    [][(Delivered /\ Last(inputs').channel = "stdout"
                  /\ ~IsStdOutHeader(Last(inputs').line))
           => UNCHANGED <<parserVars, tasks, s_nextId>>]_vars

\* C10 witness: a stdout line came between the header of the pending stderr
\* task and a continuation line of it, and the description is still being
\* accumulated.
PlainStdOutIgnoredWitness ==
    /\ Pending = 1
    /\ Len(m_descriptionParts) >= 2
    /\ Len(inputs) >= 3
    /\ origin = Len(inputs) - 2
    /\ inputs[Len(inputs) - 1].channel = "stdout"
    /\ ~IsStdOutHeader(inputs[Len(inputs) - 1].line)
    /\ IsIndented(Last(inputs))

\* The object definitions of the path that can be extracted: those that have
\* a non-empty id and are not the root object, which is the node at index 0
\* or the node that follows the program node.
IsObjectDefinition(node) == node.kind = "UiObjectDefinition"
IsRoot(i) == i = 0 \/ NodeAt(astPath, i - 1).kind = "UiProgram"
Extractable ==
    {i \in 0..(Len(astPath) - 1) :
        /\ IsObjectDefinition(NodeAt(astPath, i))
        /\ getIdProperty(<<NodeAt(astPath, i)>>) # ""
        /\ ~IsRoot(i)}

\* C11: match returns at most one operation; it returns one exactly when the
\* path at the cursor contains an object definition with a non-empty id that
\* is not the root object (not at index 0, not preceded by the program node);
\* the operation targets the innermost such object definition, skipping the
\* inner object definitions without id; the root object is never offered.
ExtractInnermost ==
    matched =>
        LET extractable == Extractable
        IN  /\ Len(result) <= 1
            /\ (Len(result) = 1) <=> (extractable # {})
            /\ \A k \in 1..Len(result) :
                   /\ result[k].objDef \in extractable
                   /\ \A i \in extractable : i <= result[k].objDef
                   /\ ~IsRoot(result[k].objDef)

\* C11 witness: under a program node whose root object has an id, the cursor is
\* in an object without id inside an object with an id, and the operation
\* targets the latter.
ExtractInnermostWitness ==
    /\ matched
    /\ Len(astPath) = 4
    /\ astPath[1] = UiProgram
    /\ IsObjectDefinition(astPath[2])
    /\ getIdProperty(<<astPath[2]>>) # ""
    /\ IsObjectDefinition(astPath[3])
    /\ getIdProperty(<<astPath[3]>>) # ""
    /\ IsObjectDefinition(astPath[4])
    /\ getIdProperty(<<astPath[4]>>) = ""
    /\ result = <<Operation(2)>>
=============================================================================
